---- MODULE Spec2Model ----
(***************************************************************************)
(* The audio output stream of nannou (src/src/audio/stream/output.rs):     *)
(* the processing closure `proc_output` that Builder::build hands to the   *)
(* event loop, the model slot Arc<Mutex<Option<M>>>, the update channel    *)
(* and pending_updates, and the Requester that decouples the hardware      *)
(* buffer size from frames_per_buffer.  The audio thread runs              *)
(* proc_output one step at a time; the controller thread sends updates     *)
(* and pauses/resumes between any two steps.  Whether a model_2.lock()     *)
(* returns Ok or Err is the mutex's choice, not proc_output's: each lock   *)
(* step has both outcomes.  The variables hist and in_hist record what     *)
(* happened and are read by no action's guard except the bounds.           *)
(* SpecHandle is the same stream with the controller thread calling the    *)
(* handle (pause, resume, send_update, close), and SpecBuild is the        *)
(* controller thread configuring a Builder and calling build(); ctl        *)
(* records the controller's last call.  SpecValidate is                    *)
(* validate_descriptions of src/src/gpu/render_pass.rs applied to render   *)
(* pass descriptions.                                                      *)
(***************************************************************************)
(* Definitions marked "Faulty variant" are not part of the model: each is  *)
(* the definition that follows it with one fault, used to show that a      *)
(* property depends on that definition.                                    *)
(***************************************************************************)
EXTENDS Integers, Sequences, FiniteSets, TLC

\* ---------------------------------------------------------------- bounds
MaxFrames    == 2   \* frames_per_buffer ranges over 1..MaxFrames
MaxHwFrames  == 2   \* frames of one hardware buffer range over 1..MaxHwFrames
MaxCallbacks == 2   \* hardware callbacks per behaviour
MaxUpdates   == 2   \* updates sent per behaviour
MaxLockFails == 1   \* failed model_2.lock() calls per behaviour
MaxInCallbacks == 3 \* hardware callbacks of a capture stream per behaviour
MaxCalls     == 2   \* calls on the stream handle per behaviour
MaxRate      == 2   \* Builder::sample_rate is called with 0..MaxRate
MaxChannels  == 2   \* Builder::channels is called with 0..MaxChannels
MaxNegotiations == 2 \* calls of find_best_matching_format on one request
MaxAttachments == 2 \* attachment descriptions of a render pass
MaxSubpasses == 1   \* subpass descriptions of a render pass
MaxRefs      == 1   \* entries of each attachment list of a subpass

\* The formats the device accepts, one per cpal::UnknownTypeOutputBuffer
\* variant: format.channels and format.data_type of the negotiated format.
DeviceFormats ==
  {[channels |-> 1, data_type |-> "I16"],
   [channels |-> 2, data_type |-> "U16"],
   [channels |-> 2, data_type |-> "F32"]}

VARIABLES
  frames_per_buffer, \* build(): frames_per_buffer.unwrap_or(..), as set by Builder::frames_per_buffer
  num_channels,      \* build(): format.channels
  hw_format,         \* sample encoding of the negotiated format
  is_paused,         \* Shared.is_paused
  update_chan,       \* mpsc channel update_tx -> update_rx: updates in flight
  pending_updates,   \* Vec of updates collected, not yet applied
  slot,              \* the Option<M> inside the Mutex: <<m>> is Some(m), <<>> is None
  mutex,             \* "free" or the context that holds the guard
  m,                 \* the model taken out of the slot by proc_output: <<m>> or <<>>
  requester,         \* Requester: num_frames, buf (logical buffer), cursor (samples of buf handed out)
  samples,           \* the intermediary Vec<S>
  start,             \* fill_buffer's write position in `samples`
  output,            \* the hardware buffer of the callback in progress
  pc,                \* position of the audio thread in proc_output
  phase,             \* which process_pending_updates!() is running: "entry" or "exit"
  hist,              \* history of the run (observation only)
  in_buf,            \* capture stream: samples accumulated in the logical buffer
  in_hw,             \* capture stream: hardware samples not yet consumed
  in_pc,             \* capture stream: position of the callback
  in_hist,           \* capture stream: history (observation only)
  event_loop,        \* the stream ids registered with the cpal event loop
  process_fns,       \* the stream ids whose processing closure the event loop holds
  stream_id,         \* Shared.stream_id: the id build_output_stream returned (0: no stream)
  builder,           \* the stream::Builder being configured
  build_pc,          \* the builder's fate: "config", "built", "failed", "panicked", or "done"
  neg,               \* a format negotiation: the request and what each call returned
  rp,                \* render pass descriptions and what validate_descriptions returned
  ctl                \* the controller thread's last call (observation only)

outVars == <<frames_per_buffer, num_channels, hw_format, is_paused, update_chan,
             pending_updates, slot, mutex, m, requester, samples, start, output,
             pc, phase, hist>>
inVars  == <<in_buf, in_hw, in_pc, in_hist>>
regVars == <<event_loop, process_fns, stream_id>>
bldVars == <<builder, build_pc, neg, rp>>
hostVars == <<regVars, bldVars, ctl>>
vars    == <<outVars, inVars, hostVars>>

\* ------------------------------------------------------------ data
None    == <<>>
Some(v) == <<v>>
Unwrap(o) == o[1]

Min(a, b) == IF a <= b THEN a ELSE b
Ceil(a, b) == (a + b - 1) \div b
Range(s) == {s[i] : i \in 1..Len(s)}
SeqFromTo(a, b) == [i \in 1..(b - a + 1) |-> a + i - 1]

\* S::equilibrium() of the user's sample type (f32: 0.0), held as a
\* fixed-point integer v standing for v / 32768.
Equilibrium == 0

\* Contents of a hardware buffer slot before proc_output writes it.
Stale == [ty |-> "stale", v |-> 0]

\* Sample::to_sample::<O>() of the `sample` crate for S = f32 in fixed point:
\* i16 is s * 32768, u16 is that plus 32768, f32 is s itself.
ToSample(fmt, s) ==
  CASE fmt = "U16" -> [ty |-> "u16", v |-> s + 32768]
    [] fmt = "I16" -> [ty |-> "i16", v |-> s]
    [] fmt = "F32" -> [ty |-> "f32", v |-> s]

\* The model M: the updates applied to it, in order, and the render calls it
\* has been through.
InitModel == [ups |-> <<>>, nrend |-> 0]

\* update(&mut model) for the update with identity u.
ApplyUpdateFn(u, model) == [model EXCEPT !.ups = Append(@, u)]

\* render(&mut model, &mut buffer): the user function counts the call in the
\* model and writes a buffer of the length it was handed; sample i of call r
\* carries the tag (r - 1) * len + i, so that the concatenation of the
\* rendered buffers is 1, 2, 3, ...
RenderModel(model) == [model EXCEPT !.nrend = @ + 1]
RenderBuffer(model, len) == [i \in 1..len |-> model.nrend * len + i]

\* ------------------------------------------------------------ Requester
\* Requester::new(frames_per_buffer, num_channels): a logical buffer with
\* nothing left to hand out, so the first fill renders.
RequesterNew(frames, channels) ==
  [num_frames |-> frames,
   buf        |-> [i \in 1..(frames * channels) |-> Equilibrium],
   cursor     |-> frames * channels]

\* Faulty variant: the two arguments swapped.
BuildRequesterSwapped(frames, channels) == RequesterNew(channels, frames)
\* build(): let mut requester = Requester::new(frames_per_buffer, num_channels)
BuildRequester(frames, channels) == RequesterNew(frames, channels)

\* Faulty variant: the frame count passed where the channel count belongs.
FillChannelsAsFrames == frames_per_buffer
\* The channels argument of requester.fill_buffer(m, &render, &mut samples,
\* num_channels, sample_rate).
FillChannels == num_channels

\* Faulty variant: the source index off by one.
FillOutputShifted(out, buf, fmt) ==
  [i \in 1..Len(out) |->
     IF i < Len(buf) THEN ToSample(fmt, buf[i + 1])
     ELSE IF i = Len(buf) THEN ToSample(fmt, buf[i]) ELSE out[i]]
\* fill_output(output, buffer): zip of the hardware buffer with `samples`,
\* each sample converted to the hardware encoding.
FillOutput(out, buf, fmt) ==
  [i \in 1..Len(out) |-> IF i <= Len(buf) THEN ToSample(fmt, buf[i]) ELSE out[i]]

\* ------------------------------------------------------------ history
InitHist ==
  [nsent |-> 0,            \* updates sent so far; update k is the k-th sent
   ncb |-> 0,              \* callbacks started
   nfail |-> 0,            \* failed lock() calls so far
   filled |-> 0,           \* samples produced by completed fill_buffer calls
   renderLens |-> {},      \* the buffer lengths the render function has seen
   \* About the callback in progress, cleared when it returns:
   sentAtStart |-> 0,      \* nsent when it started (kept while its buffer is filled)
   pausedAtStart |-> FALSE,\* is_paused when it started (kept while its buffer is filled)
   rendersInCb |-> 0,      \* its render calls
   sentAtFill |-> 0,       \* nsent when its fill_buffer returned
   sentInFill |-> FALSE,   \* an update was sent during its fill, after a render call
   sentAtExit |-> 0,       \* nsent when its exit drain read the channel
   entryFail |-> FALSE,    \* its entry drain failed to lock
   renderFail |-> FALSE,   \* its render lock failed
   exitFail |-> FALSE,     \* its exit drain failed to lock
   lastApply |-> "none"]   \* the drain that applied its last update

\* The history fields about one callback, as they are between callbacks.
ClearCallback(h) ==
  [h EXCEPT !.sentAtStart = 0, !.pausedAtStart = FALSE, !.rendersInCb = 0,
            !.sentAtFill = 0, !.sentInFill = FALSE, !.sentAtExit = 0,
            !.entryFail = FALSE,
            !.renderFail = FALSE, !.exitFail = FALSE, !.lastApply = "none"]

\* ------------------------------------------------------------ Init
\* Faulty variant: a stream that is born paused.
NewIsPausedSet == TRUE
\* Shared { .. is_paused: AtomicBool::new(false) }
NewIsPaused == FALSE

\* A stream::Builder on which no setter has been called.
NewBuilder ==
  [sample_rate |-> None, channels |-> None, frames_per_buffer |-> None,
   device |-> None,
   sample_format |-> "F32",  \* the type parameter S (default f32)
   model |-> "unit",         \* the model (default: the unit value)
   render |-> "default_render_fn"]

\* No render pass description is under validation.
NotValidated ==
  [tag |-> "none", error |-> "none", subpass_idx |-> 0, attachment_idx |-> 0]
NoRenderPass == [result |-> NotValidated]

\* No format negotiation is under observation.
NoNegotiation == [device |-> "none", results |-> <<>>]

\* What the controller thread has called so far: nothing.
InitCtl ==
  [op |-> "none",        \* the last call
   arg |-> 0,            \* its numeric argument, if it has one
   was |-> "none",       \* the lifecycle state the stream was in when it was made
   result |-> "none",    \* what it returned: "ok", "err" or "panic"
   flag |-> "none",      \* the last of pause / resume
   ncalls |-> 0,         \* calls on the stream handle so far
   nderegister |-> 0,    \* times the stream was removed from the event loop
   lost |-> {},          \* the updates sent after the receiver was dropped
   met |-> "none"]       \* what build() ran into

\* The id the event loop gives the next stream it registers.
\* Faulty variant: the closure is registered under another identity.
RegisteredIdOther(id) == id + 1
\* process_fn_tx.send((stream_id.clone(), ..)): the identity sent with the
\* processing closure is a copy of the one kept in Shared.
RegisteredId(id) == id

NewStreamId(ids) ==
  IF ids = {} THEN 1 ELSE 1 + (CHOOSE i \in ids : \A j \in ids : j <= i)

OutInit(at) ==
  /\ frames_per_buffer \in 1..MaxFrames
  /\ \E format \in DeviceFormats :
       /\ num_channels = format.channels
       /\ hw_format = format.data_type
  /\ is_paused = NewIsPaused
  /\ update_chan = <<>>
  /\ pending_updates = <<>>
  /\ slot = Some(InitModel)
  /\ mutex = "free"
  /\ m = None
  /\ requester = BuildRequester(frames_per_buffer, num_channels)
  /\ samples = [i \in 1..(frames_per_buffer * num_channels) |-> Equilibrium]
  /\ start = 0
  /\ output = <<>>
  /\ pc = at
  /\ phase = "entry"
  /\ hist = InitHist

\* The capture side: an empty logical buffer.
InInit(at) ==
  /\ in_buf = <<>>
  /\ in_hw = <<>>
  /\ in_pc = at
  /\ in_hist = [arrived  |-> <<>>,  \* every hardware sample delivered, in order
                delivered |-> <<>>, \* every logical buffer handed to capture, concatenated
                ncb      |-> 0,     \* callbacks started
                lens     |-> {}]    \* the buffer lengths the capture function has seen

\* The stream is registered with the event loop, which holds its processing
\* closure; the builder is used up.
HostInit ==
  /\ stream_id = NewStreamId({})
  /\ event_loop = {stream_id}
  /\ process_fns = {RegisteredId(stream_id)}
  /\ builder = [NewBuilder EXCEPT !.frames_per_buffer = Some(frames_per_buffer)]
  /\ build_pc = "built"
  /\ ctl = InitCtl
  /\ neg = NoNegotiation
  /\ rp = NoRenderPass

\* An output stream as build() returns it; no capture stream.
Init == OutInit("idle") /\ InInit("off") /\ HostInit

\* ------------------------------------------------------------ controller
\* The lifecycle state of the stream: Closed once it is no longer registered
\* with the event loop, else Paused or Running by the shared flag.
State ==
  IF stream_id \notin event_loop THEN "Closed"
  ELSE IF is_paused THEN "Paused" ELSE "Running"

\* Faulty variant: the event loop runs the closure of a stream it has dropped.
InvocableAlways == TRUE
\* The event loop invokes the processing closure of a stream only while the
\* stream is registered with it and it holds the closure.
Invocable == stream_id \in event_loop \cap process_fns

\* update_rx lives in the processing closure: it exists while the event loop
\* holds the closure or is running it.
ReceiverAlive == stream_id \in process_fns \/ pc \notin {"idle", "off"}

\* Faulty variant: a rendezvous channel, which takes one message at a time.
ChannelHasRoomSync(q) == Len(q) < 1
\* mpsc::channel() is the asynchronous, unbounded channel: a send finds room
\* whatever is queued.
ChannelHasRoom(q) == TRUE

\* Faulty variant: the update is queued whether or not anybody can receive it.
StreamSendBuffered ==
  /\ hist.nsent < MaxUpdates
  /\ update_chan' = Append(update_chan, hist.nsent + 1)
  /\ hist' = [hist EXCEPT !.nsent = @ + 1,
                          !.sentInFill = @ \/ (pc = "fill" /\ hist.rendersInCb > 0)]
  /\ UNCHANGED <<frames_per_buffer, num_channels, hw_format, is_paused,
                 pending_updates, slot, mutex, m, requester, samples, start,
                 output, pc, phase, inVars, regVars, bldVars>>
\* Stream::send_update: update_tx.send(Box::new(update)).  An mpsc send to a
\* dropped receiver queues nothing (the value comes back in the SendError).
StreamSend ==
  /\ hist.nsent < MaxUpdates
  /\ ChannelHasRoom(update_chan)
  /\ update_chan' = IF ReceiverAlive THEN Append(update_chan, hist.nsent + 1)
                    ELSE update_chan
  /\ hist' = [hist EXCEPT !.nsent = @ + 1,
                          !.sentInFill = @ \/ (pc = "fill" /\ hist.rendersInCb > 0)]
  /\ UNCHANGED <<frames_per_buffer, num_channels, hw_format, is_paused,
                 pending_updates, slot, mutex, m, requester, samples, start,
                 output, pc, phase, inVars, regVars, bldVars>>

SendUpdate == StreamSend /\ UNCHANGED ctl

\* Faulty variant: the flag is stored under the model mutex.
SetPausedLocking(b) ==
  /\ mutex = "free"
  /\ is_paused' = b
  /\ UNCHANGED <<frames_per_buffer, num_channels, hw_format, update_chan,
                 pending_updates, slot, mutex, m, requester, samples, start,
                 output, pc, phase, hist, inVars, regVars, bldVars>>
\* Faulty variant: the call flips the flag.
SetPausedToggle(b) ==
  /\ is_paused' = ~is_paused
  /\ UNCHANGED <<frames_per_buffer, num_channels, hw_format, update_chan,
                 pending_updates, slot, mutex, m, requester, samples, start,
                 output, pc, phase, hist, inVars, regVars, bldVars>>
\* Stream::pause / Stream::resume: store to the shared flag.
SetPaused(b) ==
  /\ is_paused' = b
  /\ UNCHANGED <<frames_per_buffer, num_channels, hw_format, update_chan,
                 pending_updates, slot, mutex, m, requester, samples, start,
                 output, pc, phase, hist, inVars, regVars, bldVars>>

Pause == SetPaused(TRUE) /\ UNCHANGED ctl
Resume == SetPaused(FALSE) /\ UNCHANGED ctl

\* ------------------------------------------------------------ proc_output
cfgVars == <<frames_per_buffer, num_channels, hw_format>>

\* Where proc_output goes when a process_pending_updates!() is over: the entry
\* drain is followed by the buffer processing, the exit drain by the return.
AfterDrain(ph) == IF ph = "entry" THEN "resize" ELSE "return"

\* Faulty variant: no second process_pending_updates!().
AfterOutputNoDrain == "return"
\* Where proc_output goes once the hardware buffer is written: the second
\* process_pending_updates!().
AfterOutput == "collect"

\* The event loop invokes proc_output with a hardware buffer of h frames.
CallbackStart(h) ==
  /\ pc = "idle"
  /\ Invocable
  /\ hist.ncb < MaxCallbacks
  /\ output' = [i \in 1..(h * num_channels) |-> Stale]
  /\ pc' = "collect"
  /\ phase' = "entry"
  /\ hist' = [hist EXCEPT !.ncb = @ + 1, !.sentAtStart = hist.nsent,
                          !.pausedAtStart = is_paused]
  /\ UNCHANGED <<cfgVars, is_paused, update_chan, pending_updates, slot, mutex,
                 m, requester, samples, start, inVars, hostVars>>

\* Faulty variant: the drain locks the model whether or not updates wait.
CollectAlwaysLock ==
  /\ pc = "collect"
  /\ pending_updates' = pending_updates \o update_chan
  /\ update_chan' = <<>>
  /\ pc' = "lock_updates"
  /\ hist' = IF phase = "exit" THEN [hist EXCEPT !.sentAtExit = hist.nsent] ELSE hist
  /\ UNCHANGED <<cfgVars, is_paused, slot, mutex, m, requester, samples, start,
                 output, phase, inVars, hostVars>>
\* pending_updates.extend(update_rx.try_iter()); if !pending_updates.is_empty()
Collect ==
  /\ pc = "collect"
  /\ pending_updates' = pending_updates \o update_chan
  /\ update_chan' = <<>>
  /\ pc' = IF pending_updates' = <<>> THEN AfterDrain(phase) ELSE "lock_updates"
  /\ hist' = IF phase = "exit" THEN [hist EXCEPT !.sentAtExit = hist.nsent] ELSE hist
  /\ UNCHANGED <<cfgVars, is_paused, slot, mutex, m, requester, samples, start,
                 output, phase, inVars, hostVars>>

\* guard.take().unwrap(): the model leaves the slot; an empty slot panics.
TakeModel(next) ==
  IF slot = None
  THEN /\ pc' = "panicked"
       /\ UNCHANGED <<slot, m>>
  ELSE /\ m' = slot
       /\ slot' = None
       /\ pc' = next

\* Faulty variant: the model is stored and also kept.
PutModelKeep(next) ==
  /\ slot' = m
  /\ mutex' = "free"
  /\ pc' = next
  /\ UNCHANGED m
\* Faulty variant: the guard is dropped without *guard = Some(model).
PutModelForget(next) ==
  /\ m' = None
  /\ mutex' = "free"
  /\ pc' = next
  /\ UNCHANGED slot
\* Faulty variant: the model is stored but the guard is kept.
PutModelHold(next) ==
  /\ slot' = m
  /\ m' = None
  /\ pc' = next
  /\ UNCHANGED mutex
\* *guard = Some(model), and the guard is dropped.
PutModel(next) ==
  /\ slot' = m
  /\ m' = None
  /\ mutex' = "free"
  /\ pc' = next

\* if let Ok(mut guard) = model_2.lock() { let mut model = guard.take().unwrap();
LockUpdatesOk ==
  /\ pc = "lock_updates"
  /\ mutex = "free"
  /\ mutex' = "audio"
  /\ TakeModel("apply")
  /\ UNCHANGED <<cfgVars, is_paused, update_chan, pending_updates, requester,
                 samples, start, output, phase, hist, inVars, hostVars>>

\* Faulty variant: the updates collected are dropped when the lock fails.
LockUpdatesErrDrop ==
  /\ pc = "lock_updates"
  /\ hist.nfail < MaxLockFails
  /\ pc' = AfterDrain(phase)
  /\ pending_updates' = <<>>
  /\ hist' = IF phase = "entry"
             THEN [hist EXCEPT !.entryFail = TRUE, !.nfail = @ + 1]
             ELSE [hist EXCEPT !.exitFail = TRUE, !.nfail = @ + 1]
  /\ UNCHANGED <<cfgVars, is_paused, update_chan, slot, mutex,
                 m, requester, samples, start, output, phase, inVars, hostVars>>
\* model_2.lock() is Err: the updates stay in pending_updates.
LockUpdatesErr ==
  /\ pc = "lock_updates"
  /\ hist.nfail < MaxLockFails
  /\ pc' = AfterDrain(phase)
  /\ hist' = IF phase = "entry"
             THEN [hist EXCEPT !.entryFail = TRUE, !.nfail = @ + 1]
             ELSE [hist EXCEPT !.exitFail = TRUE, !.nfail = @ + 1]
  /\ UNCHANGED <<cfgVars, is_paused, update_chan, pending_updates, slot, mutex,
                 m, requester, samples, start, output, phase, inVars, hostVars>>

\* Faulty variant: the back of the Vec first.
DrainNextBack(q) == Len(q)
\* The position in the Vec of the update that drain(..) yields next: the front.
DrainNext(q) == 1

\* Faulty variant: the drain applies one update and discards the others.
ApplyUpdateDropRest ==
  /\ pc = "apply"
  /\ pending_updates # <<>>
  /\ LET k == DrainNext(pending_updates)
     IN /\ m' = Some(ApplyUpdateFn(pending_updates[k], Unwrap(m)))
        /\ pending_updates' = <<>>
  /\ hist' = [hist EXCEPT !.lastApply = phase]
  /\ UNCHANGED <<cfgVars, is_paused, update_chan, slot, mutex, requester,
                 samples, start, output, pc, phase, inVars, hostVars>>
\* for mut update in pending_updates.drain(..) { update(&mut model); }
ApplyUpdate ==
  /\ pc = "apply"
  /\ pending_updates # <<>>
  /\ LET k == DrainNext(pending_updates)
     IN /\ m' = Some(ApplyUpdateFn(pending_updates[k], Unwrap(m)))
        /\ pending_updates' = SubSeq(pending_updates, 1, k - 1)
                                 \o SubSeq(pending_updates, k + 1, Len(pending_updates))
  /\ hist' = [hist EXCEPT !.lastApply = phase]
  /\ UNCHANGED <<cfgVars, is_paused, update_chan, slot, mutex, requester,
                 samples, start, output, pc, phase, inVars, hostVars>>

\* *guard = Some(model); at the end of the drain.
RestoreAfterUpdates ==
  /\ pc = "apply"
  /\ pending_updates = <<>>
  /\ PutModel(AfterDrain(phase))
  /\ UNCHANGED <<cfgVars, is_paused, update_chan, pending_updates, requester,
                 samples, start, output, phase, hist, inVars, hostVars>>

\* Faulty variant: resize without clear(): the samples of the previous
\* callback stay in the Vec.
ResizeSamplesNoClear ==
  /\ pc = "resize"
  /\ samples' = [i \in 1..Len(output) |->
                   IF i <= Len(samples) THEN samples[i] ELSE Equilibrium]
  /\ pc' = "lock_render"
  /\ UNCHANGED <<cfgVars, is_paused, update_chan, pending_updates, slot, mutex,
                 m, requester, start, output, phase, hist, inVars, hostVars>>
\* Faulty variant: one sample short of the hardware buffer.
ResizeSamplesShort ==
  /\ pc = "resize"
  /\ samples' = [i \in 1..(Len(output) - 1) |-> Equilibrium]
  /\ pc' = "lock_render"
  /\ UNCHANGED <<cfgVars, is_paused, update_chan, pending_updates, slot, mutex,
                 m, requester, start, output, phase, hist, inVars, hostVars>>
\* samples.clear(); samples.resize(output.len(), S::equilibrium());
ResizeSamples ==
  /\ pc = "resize"
  /\ samples' = [i \in 1..Len(output) |-> Equilibrium]
  /\ pc' = "lock_render"
  /\ UNCHANGED <<cfgVars, is_paused, update_chan, pending_updates, slot, mutex,
                 m, requester, start, output, phase, hist, inVars, hostVars>>

\* Faulty variant: an update left in pending_updates is applied under the
\* render lock.
LockRenderOkDraining ==
  /\ pc = "lock_render"
  /\ mutex = "free"
  /\ mutex' = "audio"
  /\ slot' = None
  /\ m' = IF pending_updates = <<>> THEN slot
          ELSE Some(ApplyUpdateFn(Head(pending_updates), Unwrap(slot)))
  /\ pending_updates' = IF pending_updates = <<>> THEN <<>> ELSE Tail(pending_updates)
  /\ pc' = "fill"
  /\ start' = 0
  /\ UNCHANGED <<cfgVars, is_paused, update_chan, requester,
                 samples, output, phase, hist, inVars, hostVars>>
\* if let Ok(mut guard) = model_2.lock() { let mut m = guard.take().unwrap();
LockRenderOk ==
  /\ pc = "lock_render"
  /\ mutex = "free"
  /\ mutex' = "audio"
  /\ TakeModel("fill")
  /\ start' = 0
  /\ UNCHANGED <<cfgVars, is_paused, update_chan, pending_updates, requester,
                 samples, output, phase, hist, inVars, hostVars>>

\* model_2.lock() is Err: no fill, `samples` stays at equilibrium.
LockRenderErr ==
  /\ pc = "lock_render"
  /\ hist.nfail < MaxLockFails
  /\ pc' = "convert"
  /\ hist' = [hist EXCEPT !.renderFail = TRUE, !.nfail = @ + 1,
                          !.sentAtStart = 0, !.pausedAtStart = FALSE]
  /\ UNCHANGED <<cfgVars, is_paused, update_chan, pending_updates, slot, mutex,
                 m, requester, samples, start, output, phase, inVars, hostVars>>

\* ------------------------------------------------------------ fill_buffer
\* Requester::fill_buffer, step 1a: the logical buffer is used up and the
\* hardware buffer has room: one render call on a logical buffer of
\* num_frames * channels samples, and the cursor goes back to zero.
FillRender ==
  /\ pc = "fill"
  /\ start < Len(samples)
  /\ requester.cursor >= Len(requester.buf)
  /\ LET len   == requester.num_frames * FillChannels
         model == Unwrap(m)
     IN /\ requester' = [requester EXCEPT !.buf = RenderBuffer(model, len),
                                          !.cursor = 0]
        /\ m' = Some(RenderModel(model))
        /\ hist' = [hist EXCEPT !.renderLens = @ \cup {len},
                                !.rendersInCb = @ + 1]
  /\ UNCHANGED <<cfgVars, is_paused, update_chan, pending_updates, slot, mutex,
                 samples, start, output, pc, phase, inVars, hostVars>>

\* Step 1b: copy min(room in the hardware buffer, rest of the logical buffer)
\* samples and advance both positions.
FillCopy ==
  /\ pc = "fill"
  /\ start < Len(samples)
  /\ requester.cursor < Len(requester.buf)
  /\ LET n == Min(Len(samples) - start, Len(requester.buf) - requester.cursor)
     IN /\ samples' = [i \in 1..Len(samples) |->
                         IF start < i /\ i <= start + n
                         THEN requester.buf[requester.cursor + (i - start)]
                         ELSE samples[i]]
        /\ start' = start + n
        /\ requester' = [requester EXCEPT !.cursor = @ + n]
  /\ UNCHANGED <<cfgVars, is_paused, update_chan, pending_updates, slot, mutex,
                 m, output, pc, phase, hist, inVars, hostVars>>

\* Step 2: the hardware buffer is full; fill_buffer returns the model, which
\* proc_output puts back: *guard = Some(m).
FillReturn ==
  /\ pc = "fill"
  /\ start = Len(samples)
  /\ PutModel("convert")
  /\ hist' = [hist EXCEPT !.filled = @ + Len(samples), !.sentAtFill = hist.nsent,
                          !.sentAtStart = 0, !.pausedAtStart = FALSE]
  /\ UNCHANGED <<cfgVars, is_paused, update_chan, pending_updates, requester,
                 samples, start, output, phase, inVars, hostVars>>

\* Faulty variant: the last sample of the hardware buffer is not written.
WriteOutputPartial ==
  /\ pc = "convert"
  /\ output' = [i \in 1..Len(output) |->
                  IF i < Len(output) THEN ToSample(hw_format, samples[i])
                  ELSE output[i]]
  /\ pc' = AfterOutput
  /\ phase' = "exit"
  /\ UNCHANGED <<cfgVars, is_paused, update_chan, pending_updates, slot, mutex,
                 m, requester, samples, start, hist, inVars, hostVars>>
\* match output { U16 | I16 | F32 => fill_output(&mut buffer, &samples) }
WriteOutput ==
  /\ pc = "convert"
  /\ output' = FillOutput(output, samples, hw_format)
  /\ pc' = AfterOutput
  /\ phase' = "exit"
  /\ UNCHANGED <<cfgVars, is_paused, update_chan, pending_updates, slot, mutex,
                 m, requester, samples, start, hist, inVars, hostVars>>

\* proc_output returns to the event loop.
Return ==
  /\ pc = "return"
  /\ pc' = "idle"
  /\ hist' = ClearCallback(hist)
  /\ UNCHANGED <<cfgVars, is_paused, update_chan, pending_updates, slot, mutex,
                 m, requester, samples, start, output, phase, inVars, hostVars>>

\* ------------------------------------------------------------ specification
Next ==
  \/ SendUpdate
  \/ Pause
  \/ Resume
  \/ \E h \in 1..MaxHwFrames : CallbackStart(h)
  \/ Collect
  \/ LockUpdatesOk
  \/ LockUpdatesErr
  \/ ApplyUpdate
  \/ RestoreAfterUpdates
  \/ ResizeSamples
  \/ LockRenderOk
  \/ LockRenderErr
  \/ FillRender
  \/ FillCopy
  \/ FillReturn
  \/ WriteOutput
  \/ Return

Spec == Init /\ [][Next]_vars

\* The same stream under fairness: the audio thread does not stop in the
\* middle of proc_output, and the event loop invokes proc_output again as long
\* as the bound on callbacks allows.  The controller only sends updates.
AudioStep ==
  \/ \E h \in 1..MaxHwFrames : CallbackStart(h)
  \/ Collect
  \/ LockUpdatesOk
  \/ LockUpdatesErr
  \/ ApplyUpdate
  \/ RestoreAfterUpdates
  \/ ResizeSamples
  \/ LockRenderOk
  \/ LockRenderErr
  \/ FillRender
  \/ FillCopy
  \/ FillReturn
  \/ WriteOutput
  \/ Return

NextLive ==
  \/ SendUpdate
  \/ AudioStep

SpecLive == Init /\ [][NextLive]_vars /\ WF_vars(AudioStep)

\* The same system for a stream of one channel with a logical buffer of one
\* frame: the path of an update from send_update to the model does not depend
\* on the shape of the buffers.
InitDeliver == Init /\ frames_per_buffer = 1 /\ num_channels = 1

SpecDeliver == InitDeliver /\ [][NextLive]_vars /\ WF_vars(AudioStep)

\* ------------------------------------------------------------ capture stream
\* The input stream's rebuffering, the mirror of fill_buffer: hardware samples
\* accumulate in the logical buffer, and each time it is full the capture
\* function gets it and it starts again empty.

\* The logical sample (type S) of a raw hardware sample: the inverse scaling of
\* ToSample.
FromSample(raw) ==
  CASE raw.ty = "u16" -> raw.v - 32768
    [] raw.ty = "i16" -> raw.v
    [] raw.ty = "f32" -> raw.v

LogicalLen == frames_per_buffer * num_channels

\* The event loop delivers a hardware input buffer of h frames; the k-th sample
\* the hardware ever delivers is the raw encoding of k.
InCallbackStart(h) ==
  /\ in_pc = "idle"
  /\ in_hist.ncb < MaxInCallbacks
  /\ LET n   == Len(in_hist.arrived)
         raw == [i \in 1..(h * num_channels) |-> ToSample(hw_format, n + i)]
     IN /\ in_hw' = raw
        /\ in_hist' = [in_hist EXCEPT !.arrived = @ \o raw, !.ncb = @ + 1]
  /\ in_pc' = "read"
  /\ UNCHANGED <<outVars, hostVars, in_buf>>

\* Faulty variant: the whole hardware buffer, whatever the room.
InCopyCountAll == Len(in_hw)
\* How many samples one copy moves: min(rest of the hardware buffer, room in
\* the logical buffer).
InCopyCount == Min(Len(in_hw), LogicalLen - Len(in_buf))

\* Copy from the hardware buffer into the logical buffer, converting each sample.
InCopy ==
  /\ in_pc = "read"
  /\ in_hw # <<>>
  /\ Len(in_buf) < LogicalLen
  /\ LET n == InCopyCount
     IN /\ in_buf' = in_buf \o [i \in 1..n |-> FromSample(in_hw[i])]
        /\ in_hw' = SubSeq(in_hw, n + 1, Len(in_hw))
  /\ UNCHANGED <<outVars, hostVars, in_pc, in_hist>>

\* The logical buffer is full: capture(&mut model, &buffer), then it resets.
InCapture ==
  /\ in_pc = "read"
  /\ Len(in_buf) >= LogicalLen
  /\ in_hist' = [in_hist EXCEPT !.delivered = @ \o in_buf,
                                !.lens = @ \cup {Len(in_buf)}]
  /\ in_buf' = <<>>
  /\ UNCHANGED <<outVars, hostVars, in_hw, in_pc>>

\* The hardware buffer is consumed and the logical buffer is not full.
InReturn ==
  /\ in_pc = "read"
  /\ in_hw = <<>>
  /\ Len(in_buf) < LogicalLen
  /\ in_pc' = "idle"
  /\ UNCHANGED <<outVars, hostVars, in_buf, in_hw, in_hist>>

InitInput == OutInit("off") /\ InInit("idle") /\ HostInit

NextInput ==
  \/ \E h \in 1..MaxHwFrames : InCallbackStart(h)
  \/ InCopy
  \/ InCapture
  \/ InReturn

SpecInput == InitInput /\ [][NextInput]_vars

\* ------------------------------------------------------------ stream handle
\* The controller thread calling the stream handle: pause, resume, send_update
\* and close in any order, while the audio thread runs proc_output.  ctl
\* records each call as it is made.
Called(op) ==
  [ctl EXCEPT !.op = op, !.was = State, !.result = "ok", !.ncalls = @ + 1,
              !.flag = IF op \in {"pause", "resume"} THEN op ELSE @,
              !.lost = IF op = "send" /\ ~ReceiverAlive
                       THEN @ \cup {hist.nsent + 1} ELSE @]

HandlePause ==
  /\ ctl.ncalls < MaxCalls
  /\ SetPaused(TRUE)
  /\ ctl' = Called("pause")

HandleResume ==
  /\ ctl.ncalls < MaxCalls
  /\ SetPaused(FALSE)
  /\ ctl' = Called("resume")

\* Faulty variant: a send that always reports success.
SendResultOk == "ok"
\* What update_tx.send(..) returns on the channel of mpsc::channel(): Ok(())
\* while the Receiver exists, Err(SendError(update)) once it was dropped.
SendResult == IF ReceiverAlive THEN "ok" ELSE "err"

\* send_update hands back what the channel's send returned.
HandleSend ==
  /\ ctl.ncalls < MaxCalls
  /\ StreamSend
  /\ ctl' = [Called("send") EXCEPT !.result = SendResult]

\* Faulty variant: every close asks the event loop to remove the stream.
StreamCloseAgain ==
  /\ ctl.ncalls < MaxCalls
  /\ event_loop' = event_loop \ {stream_id}
  /\ process_fns' = process_fns \ {stream_id}
  /\ ctl' = [Called("close") EXCEPT !.nderegister = @ + 1]
  /\ UNCHANGED <<outVars, inVars, stream_id, bldVars>>
\* Stream::close / drop: the stream is removed from the event loop and its
\* processing closure is released; on a stream that is already closed there
\* is nothing to do.
StreamClose ==
  /\ ctl.ncalls < MaxCalls
  /\ IF stream_id \in event_loop
     THEN /\ event_loop' = event_loop \ {stream_id}
          /\ process_fns' = process_fns \ {stream_id}
          /\ ctl' = [Called("close") EXCEPT !.nderegister = @ + 1]
     ELSE /\ UNCHANGED <<event_loop, process_fns>>
          /\ ctl' = Called("close")
  /\ UNCHANGED <<outVars, inVars, stream_id, bldVars>>

NextHandle ==
  \/ HandlePause
  \/ HandleResume
  \/ HandleSend
  \/ StreamClose
  \/ \E h \in 1..MaxHwFrames : CallbackStart(h)
  \/ Collect
  \/ LockUpdatesOk
  \/ ApplyUpdate
  \/ RestoreAfterUpdates
  \/ ResizeSamples
  \/ LockRenderOk
  \/ FillRender
  \/ FillCopy
  \/ FillReturn
  \/ WriteOutput
  \/ Return

SpecHandle == Init /\ [][NextHandle]_vars

\* The steps of the audio thread among those of NextHandle.  The audio thread
\* is driven by the hardware: a callback that has started runs to its end, and
\* a registered stream is called again.
HandleAudioStep ==
  \/ \E h \in 1..MaxHwFrames : CallbackStart(h)
  \/ Collect
  \/ LockUpdatesOk
  \/ ApplyUpdate
  \/ RestoreAfterUpdates
  \/ ResizeSamples
  \/ LockRenderOk
  \/ FillRender
  \/ FillCopy
  \/ FillReturn
  \/ WriteOutput
  \/ Return

SpecHandleLive == SpecHandle /\ WF_vars(HandleAudioStep)

\* ------------------------------------------------------------ builder
\* The controller thread configuring a Builder and calling build() on it.

\* super::DEFAULT_SAMPLE_RATE and Buffer::<S>::DEFAULT_LEN_FRAMES.
DefaultSampleRate == 44100
DefaultLenFrames == 64

\* cpal::SampleFormat, the value of cpal_sample_format::<S>().
SampleFormats == {"I16", "U16", "F32"}

\* The output devices of the system.  default_format is
\* default_output_format().ok(); supported is what supported_output_formats()
\* yields when enumerable, and the enumeration fails when not.
Devices ==
  {[name |-> "stereo", enumerable |-> TRUE,
    default_format |-> Some([channels |-> 2, sample_rate |-> DefaultSampleRate,
                             data_type |-> "F32"]),
    supported |-> <<[channels |-> 2, min_rate |-> 1, max_rate |-> DefaultSampleRate,
                     data_type |-> "F32"],
                    [channels |-> 1, min_rate |-> 1, max_rate |-> DefaultSampleRate,
                     data_type |-> "I16"]>>],
   [name |-> "mono", enumerable |-> TRUE,
    default_format |-> None,
    supported |-> <<[channels |-> 1, min_rate |-> MaxRate, max_rate |-> MaxRate,
                     data_type |-> "I16"],
                    [channels |-> 1, min_rate |-> DefaultSampleRate,
                     max_rate |-> DefaultSampleRate, data_type |-> "I16"],
                    [channels |-> 2, min_rate |-> 1, max_rate |-> MaxRate,
                     data_type |-> "U16"]>>],
   [name |-> "broken", enumerable |-> FALSE,
    default_format |-> None,
    supported |-> <<>>]}

\* Faulty variant: zero passes.
AssertNonNegative(n) == n >= 0
\* assert!(n > 0) of the three numeric setters.
AssertPositive(n) == n > 0

\* self.builder.field = Some(value): the builder with one field assigned.
WithField(b, field, v) == [b EXCEPT ![field] = v]

\* A numeric setter called with n: the assertion panics, or the field is set.
Setter(op, field, n) ==
  /\ build_pc = "config"
  /\ IF AssertPositive(n)
     THEN /\ builder' = WithField(builder, field, Some(n))
          /\ build_pc' = "config"
          /\ ctl' = [ctl EXCEPT !.op = op, !.arg = n, !.result = "ok"]
     ELSE /\ build_pc' = "panicked"
          /\ ctl' = [ctl EXCEPT !.op = op, !.arg = n, !.result = "panic"]
          /\ UNCHANGED builder
  /\ UNCHANGED <<outVars, inVars, regVars, neg, rp>>

SetSampleRate(n) == Setter("sample_rate", "sample_rate", n)
SetChannels(n) == Setter("channels", "channels", n)
SetFramesPerBuffer(n) == Setter("frames_per_buffer", "frames_per_buffer", n)

\* Builder::device
SetDevice(d) ==
  /\ build_pc = "config"
  /\ builder' = WithField(builder, "device", Some(d))
  /\ ctl' = [ctl EXCEPT !.op = "device", !.arg = 0, !.result = "ok"]
  /\ UNCHANGED <<outVars, inVars, regVars, build_pc, neg, rp>>

\* A format satisfies the request: the sample encoding asked for and, if a
\* channel count was asked for, that count.
Satisfies(f, sample_format, channels) ==
  /\ f.data_type = sample_format
  /\ channels = None \/ Unwrap(channels) = f.channels

Distance(f, rate) ==
  IF rate < f.min_rate THEN f.min_rate - rate
  ELSE IF rate > f.max_rate THEN rate - f.max_rate ELSE 0

\* Faulty variant: only the formats whose range holds the rate asked for.
CandidatesInRange(sup, sample_format, channels, rate) ==
  {i \in 1..Len(sup) : /\ Satisfies(sup[i], sample_format, channels)
                       /\ Distance(sup[i], rate) = 0}
\* The supported formats that can serve the request: those with the channels
\* and the encoding asked for, whatever their sample rates.
Candidates(sup, sample_format, channels, rate) ==
  {i \in 1..Len(sup) : Satisfies(sup[i], sample_format, channels)}

\* find_best_matching_format: Ok(Some(format)), Ok(None) when no supported
\* format has the channels and the encoding asked for, Err when the formats
\* cannot be enumerated.  The default format if it satisfies the request; else
\* the first supported format that does and whose range holds the rate; else
\* the one whose range is nearest to it.
FindBestMatchingFormat(device, sample_format, channels, rate) ==
  IF /\ device.default_format # None
     /\ Satisfies(Unwrap(device.default_format), sample_format, channels)
  THEN [ok |-> TRUE, format |-> device.default_format]
  ELSE IF ~device.enumerable
  THEN [ok |-> FALSE, format |-> None]
  ELSE
    LET sup == device.supported
        cands == Candidates(sup, sample_format, channels, rate)
        best == CHOOSE i \in cands :
                  \A j \in cands :
                    \/ Distance(sup[i], rate) < Distance(sup[j], rate)
                    \/ Distance(sup[i], rate) = Distance(sup[j], rate) /\ i <= j
        e == sup[best]
        r == IF rate < e.min_rate THEN e.min_rate
             ELSE IF rate > e.max_rate THEN e.max_rate ELSE rate
    IN IF cands = {}
       THEN [ok |-> TRUE, format |-> None]
       ELSE [ok |-> TRUE,
             format |-> Some([channels |-> e.channels, sample_rate |-> r,
                              data_type |-> e.data_type])]

\* No stream exists: the variables of the stream before build() has made it.
OutNone ==
  /\ frames_per_buffer = 0
  /\ num_channels = 0
  /\ hw_format = "none"
  /\ is_paused = FALSE
  /\ update_chan = <<>>
  /\ pending_updates = <<>>
  /\ slot = None
  /\ mutex = "free"
  /\ m = None
  /\ requester = RequesterNew(0, 0)
  /\ samples = <<>>
  /\ start = 0
  /\ output = <<>>
  /\ pc = "off"
  /\ phase = "entry"
  /\ hist = InitHist

\* build() ends without a stream: Err(error) returned, or a panic.
BuildEnds(at, met, result) ==
  /\ build_pc' = at
  /\ ctl' = [ctl EXCEPT !.op = "build", !.arg = 0, !.met = met, !.result = result]
  /\ UNCHANGED <<outVars, inVars, stream_id, builder, neg, rp>>

\* build(), lines 160-263: the channel, the model slot, the requester, the
\* samples, the closure handed to the event loop, Shared and the Stream.
BuildStream(id, frames, format) ==
  /\ process_fns' = process_fns \cup {RegisteredId(id)}
  /\ stream_id' = id
  /\ frames_per_buffer' = frames
  /\ num_channels' = format.channels
  /\ hw_format' = format.data_type
  /\ is_paused' = NewIsPaused
  /\ update_chan' = <<>>
  /\ pending_updates' = <<>>
  /\ slot' = Some(InitModel)
  /\ mutex' = "free"
  /\ m' = None
  /\ requester' = BuildRequester(frames, format.channels)
  /\ samples' = [i \in 1..(frames * format.channels) |-> Equilibrium]
  /\ start' = 0
  /\ output' = <<>>
  /\ pc' = "idle"
  /\ phase' = "entry"
  /\ hist' = InitHist
  /\ build_pc' = "built"
  /\ ctl' = [ctl EXCEPT !.op = "build", !.arg = 0, !.met = "fine", !.result = "ok"]
  /\ UNCHANGED <<inVars, builder, neg, rp>>

\* Builder::build in a system whose default output device is dflt (None: there
\* is none), whose event loop accepts the stream or not (hw_ok), and whose
\* audio thread still receives processing closures or not (tx_ok).
Build(dflt, hw_ok, tx_ok) ==
  /\ build_pc = "config"
  /\ LET rate == IF builder.sample_rate = None THEN DefaultSampleRate
                 ELSE Unwrap(builder.sample_rate)
         device == IF builder.device = None THEN dflt ELSE builder.device
         found == FindBestMatchingFormat(Unwrap(device), builder.sample_format,
                                         builder.channels, rate)
         id == NewStreamId(event_loop)
         frames == IF builder.frames_per_buffer = None THEN DefaultLenFrames
                   ELSE Unwrap(builder.frames_per_buffer)
     IN IF device = None
        THEN \* cpal::default_output_device().ok_or(BuildError::DefaultDevice)?
             /\ BuildEnds("failed", "no_device", "DefaultDevice")
             /\ UNCHANGED <<event_loop, process_fns>>
        ELSE IF ~found.ok
        THEN \* find_best_matching_format(..)? is Err
             /\ BuildEnds("failed", "no_enumeration", "FormatsEnumeration")
             /\ UNCHANGED <<event_loop, process_fns>>
        ELSE IF found.format = None
        THEN \* .expect("no matching supported audio output formats ..")
             /\ BuildEnds("panicked", "no_format", "panic")
             /\ UNCHANGED <<event_loop, process_fns>>
        ELSE IF ~hw_ok
        THEN \* event_loop.build_output_stream(&device, &format)? is Err
             /\ BuildEnds("failed", "no_registration", "BuildStream")
             /\ UNCHANGED <<event_loop, process_fns>>
        ELSE IF ~tx_ok
        THEN \* the stream is registered; process_fn_tx.send(..).unwrap() panics
             /\ event_loop' = event_loop \cup {id}
             /\ BuildEnds("panicked", "no_closure_receiver", "panic")
             /\ UNCHANGED process_fns
        ELSE /\ event_loop' = event_loop \cup {id}
             /\ BuildStream(id, frames, Unwrap(found.format))

\* A fresh builder for some sample type S; nothing is registered.
InitBuild ==
  /\ OutNone
  /\ InInit("off")
  /\ event_loop = {}
  /\ process_fns = {}
  /\ stream_id = 0
  /\ \E f \in SampleFormats : builder = [NewBuilder EXCEPT !.sample_format = f]
  /\ build_pc = "config"
  /\ ctl = InitCtl
  /\ neg = NoNegotiation
  /\ rp = NoRenderPass

NextBuild ==
  \/ \E n \in 0..MaxRate : SetSampleRate(n)
  \/ \E n \in 0..MaxChannels : SetChannels(n)
  \/ \E n \in 0..MaxFrames : SetFramesPerBuffer(n)
  \/ \E d \in Devices : SetDevice(d)
  \/ \E dflt \in {None} \cup {Some(d) : d \in Devices}, hw_ok \in BOOLEAN,
        tx_ok \in BOOLEAN : Build(dflt, hw_ok, tx_ok)

SpecBuild == InitBuild /\ [][NextBuild]_vars

\* ----------------------------------------------------------- builder calls
\* The models and the render functions a builder is given.
Models == {"unit", "synth"}
RenderFns == {"default_render_fn", "render_fn"}

\* Faulty variant: the device is not carried over to the new builder.
WithModelDropDevice(b, model) ==
  [render |-> b.render,
   model |-> model,
   sample_rate |-> b.sample_rate,
   channels |-> b.channels,
   frames_per_buffer |-> b.frames_per_buffer,
   device |-> None,
   sample_format |-> b.sample_format]
\* Builder::model: a new builder made of the fields of the old one, with the
\* model given.
WithModel(b, model) ==
  [render |-> b.render,
   model |-> model,
   sample_rate |-> b.sample_rate,
   channels |-> b.channels,
   frames_per_buffer |-> b.frames_per_buffer,
   device |-> b.device,
   sample_format |-> b.sample_format]

\* Builder::render: a new builder made of the fields of the old one, with the
\* render function given and the sample type S2 of its buffers.
WithRender(b, render, s2) ==
  [render |-> render,
   model |-> b.model,
   sample_rate |-> b.sample_rate,
   channels |-> b.channels,
   frames_per_buffer |-> b.frames_per_buffer,
   device |-> b.device,
   sample_format |-> s2]

SetModel(model) ==
  /\ build_pc = "config"
  /\ builder' = WithModel(builder, model)
  /\ ctl' = [ctl EXCEPT !.op = "model", !.arg = 0, !.result = "ok"]
  /\ UNCHANGED <<outVars, inVars, regVars, build_pc, neg, rp>>

SetRender(render, s2) ==
  /\ build_pc = "config"
  /\ builder' = WithRender(builder, render, s2)
  /\ ctl' = [ctl EXCEPT !.op = "render", !.arg = 0, !.result = "ok"]
  /\ UNCHANGED <<outVars, inVars, regVars, build_pc, neg, rp>>

NextConfig ==
  \/ \E model \in Models : SetModel(model)
  \/ \E render \in RenderFns, s2 \in SampleFormats : SetRender(render, s2)
  \/ \E n \in 0..MaxRate : SetSampleRate(n)
  \/ \E n \in 0..MaxChannels : SetChannels(n)
  \/ \E n \in 0..MaxFrames : SetFramesPerBuffer(n)
  \/ \E d \in Devices : SetDevice(d)

SpecConfig == InitBuild /\ [][NextConfig]_vars

\* ------------------------------------------------------------ negotiation
\* find_best_matching_format called repeatedly on one request: a device, the
\* encoding of S, an optional channel count and a sample rate.
Rates == (1..MaxRate) \cup {DefaultSampleRate}

Negotiate ==
  /\ Len(neg.results) < MaxNegotiations
  /\ neg' = [neg EXCEPT !.results =
                Append(@, FindBestMatchingFormat(neg.device, neg.sample_format,
                                                 neg.channels, neg.rate))]
  /\ UNCHANGED <<outVars, inVars, regVars, builder, build_pc, ctl, rp>>

InitNegotiate ==
  /\ OutNone
  /\ InInit("off")
  /\ event_loop = {}
  /\ process_fns = {}
  /\ stream_id = 0
  /\ builder = NewBuilder
  /\ build_pc = "config"
  /\ ctl = InitCtl
  /\ \E d \in Devices, f \in SampleFormats, r \in Rates,
        c \in {None} \cup {Some(n) : n \in 1..(MaxChannels + 1)} :
       neg = [device |-> d, sample_format |-> f, channels |-> c, rate |-> r,
              results |-> <<>>]
  /\ rp = NoRenderPass

NextNegotiate == Negotiate

SpecNegotiate == InitNegotiate /\ [][NextNegotiate]_vars

\* ------------------------------------------------------ render pass
\* validate_descriptions (src/src/gpu/render_pass.rs).  An attachment
\* description has a sample count and a format; a subpass refers to
\* attachments by index, from 0, with an image layout.
SampleCounts == {1, 2}
Formats == {"R8G8B8A8Unorm", "D16Unorm"}
Layouts == {"ColorAttachmentOptimal", "General"}

SeqsUpTo(S, n) == UNION {[1..k -> S] : k \in 0..n}

\* What the function does at one point of its run: it goes on, returns an
\* error, or panics on an index out of range; Ok(()) at the end.
Continue == [tag |-> "Continue", error |-> "none", subpass_idx |-> 0, attachment_idx |-> 0]
ValidOk == [tag |-> "Ok", error |-> "none", subpass_idx |-> 0, attachment_idx |-> 0]
IndexPanic == [tag |-> "Panic", error |-> "none", subpass_idx |-> 0, attachment_idx |-> 0]
Err(e, s, i) == [tag |-> "Err", error |-> e, subpass_idx |-> s, attachment_idx |-> i]

\* attachment_descriptions.get(i) is Some; attachment_descriptions[i] panics
\* when it is not.
InRange(att, i) == i < Len(att)
At(att, i) == att[i + 1]

Idxs(refs) == [j \in 1..Len(refs) |-> refs[j].idx]

RECURSIVE FirstEvent(_)
FirstEvent(es) ==
  IF es = <<>> THEN Continue
  ELSE IF Head(es).tag # "Continue" THEN Head(es)
  ELSE FirstEvent(Tail(es))

RECURSIVE Flatten(_)
Flatten(ss) == IF ss = <<>> THEN <<>> ELSE Head(ss) \o Flatten(Tail(ss))

\* Validate subpass attachment indices: color, depth-stencil, input and
\* preserve attachments, each looked up with get.
CheckIndices(att, sp, s) ==
  LET idxs == Idxs(sp.color_attachments \o sp.depth_stencil \o sp.input_attachments)
                \o sp.preserve_attachments
  IN [j \in 1..Len(idxs) |->
        IF InRange(att, idxs[j]) THEN Continue
        ELSE Err("SubpassInvalidAttachmentIndex", s, idxs[j])]

\* Validate sample counts: color and depth-stencil attachments, indexed.
CheckSamples(att, sp, s) ==
  LET idxs == Idxs(sp.color_attachments \o sp.depth_stencil)
  IN [j \in 1..Len(idxs) |->
        IF ~InRange(att, idxs[1]) \/ ~InRange(att, idxs[j]) THEN IndexPanic
        ELSE IF At(att, idxs[1]).samples # At(att, idxs[j]).samples
        THEN Err("InvalidSamples", s, idxs[j])
        ELSE Continue]

\* Validate image layouts: an attachment that is both a color or
\* depth-stencil attachment and an input attachment has one layout.
CheckLayouts(att, sp, s) ==
  LET as == sp.color_attachments \o sp.depth_stencil
      bs == sp.input_attachments
  IN Flatten([i \in 1..Len(as) |->
                [j \in 1..Len(bs) |->
                   IF as[i].idx = bs[j].idx /\ as[i].layout # bs[j].layout
                   THEN Err("SubpassInvalidImageLayout", s, as[i].idx)
                   ELSE Continue]])

\* Validate preserve attachments: none is among the others.
CheckPreserve(att, sp, s) ==
  LET idxs == Idxs(sp.color_attachments \o sp.depth_stencil \o sp.input_attachments)
  IN [j \in 1..Len(idxs) |->
        IF idxs[j] \in Range(sp.preserve_attachments)
        THEN Err("SubpassInvalidPreserveAttachment", s, idxs[j])
        ELSE Continue]

\* Validate resolve attachments, in a subpass that has some: each has one
\* sample, each color attachment more than one, and all of them one format.
\* All are indexed.
CheckResolve(att, sp, s) ==
  LET res == Idxs(sp.resolve_attachments)
      col == Idxs(sp.color_attachments)
      all == res \o col
  IN IF res = <<>> THEN <<>>
     ELSE [j \in 1..Len(res) |->
             IF ~InRange(att, res[j]) THEN IndexPanic
             ELSE IF At(att, res[j]).samples # 1
             THEN Err("SubpassInvalidResolveAttachmentSamples", s, res[j])
             ELSE Continue]
          \o [j \in 1..Len(col) |->
                IF ~InRange(att, col[j]) THEN IndexPanic
                ELSE IF At(att, col[j]).samples <= 1
                THEN Err("SubpassInvalidColorAttachmentSamples", s, col[j])
                ELSE Continue]
          \o [j \in 1..Len(all) |->
                IF ~InRange(att, all[1]) \/ ~InRange(att, all[j]) THEN IndexPanic
                ELSE IF At(att, all[1]).format # At(att, all[j]).format
                THEN Err("SubpassInvalidAttachmentFormat", s, all[j])
                ELSE Continue]

\* validate_descriptions: the five loops over the subpasses one after the
\* other, ended by the first error or panic.
ValidateDescriptions(att, subs) ==
  LET n == Len(subs)
      events ==
        Flatten([k \in 1..n |-> CheckIndices(att, subs[k], k - 1)])
          \o Flatten([k \in 1..n |-> CheckSamples(att, subs[k], k - 1)])
          \o Flatten([k \in 1..n |-> CheckLayouts(att, subs[k], k - 1)])
          \o Flatten([k \in 1..n |-> CheckPreserve(att, subs[k], k - 1)])
          \o Flatten([k \in 1..n |-> CheckResolve(att, subs[k], k - 1)])
      r == FirstEvent(events)
  IN IF r.tag = "Continue" THEN ValidOk ELSE r

\* The descriptions validate_descriptions is given.  An index ranges over
\* 0..MaxAttachments, so that one past the longest attachment list exists.
\* The layout of a resolve attachment is not read by the function.
AttachmentDescriptions ==
  SeqsUpTo([samples : SampleCounts, format : Formats], MaxAttachments)
AttachmentRefs == [idx : 0..MaxAttachments, layout : Layouts]
ResolveRefs == [idx : 0..MaxAttachments, layout : {"General"}]
PassDescriptions ==
  [color_attachments : SeqsUpTo(AttachmentRefs, MaxRefs),
   depth_stencil : SeqsUpTo(AttachmentRefs, 1),
   input_attachments : SeqsUpTo(AttachmentRefs, MaxRefs),
   preserve_attachments : SeqsUpTo(0..MaxAttachments, MaxRefs),
   resolve_attachments : SeqsUpTo(ResolveRefs, MaxRefs)]

Validate ==
  /\ rp.result = NotValidated
  /\ rp' = [rp EXCEPT !.result = ValidateDescriptions(rp.attachments, rp.subpasses)]
  /\ UNCHANGED <<outVars, inVars, regVars, builder, build_pc, neg, ctl>>

InitValidate ==
  /\ OutNone
  /\ InInit("off")
  /\ event_loop = {}
  /\ process_fns = {}
  /\ stream_id = 0
  /\ builder = NewBuilder
  /\ build_pc = "config"
  /\ ctl = InitCtl
  /\ neg = NoNegotiation
  /\ \E att \in AttachmentDescriptions :
       \E subs \in SeqsUpTo(PassDescriptions, MaxSubpasses) :
         rp = [attachments |-> att, subpasses |-> subs, result |-> NotValidated]

NextValidate == Validate

SpecValidate == InitValidate /\ [][NextValidate]_vars

\* ------------------------------------------------------------ observations
\* The model value, wherever it currently is: taken out by proc_output or in
\* the slot.
CurModel == IF m # None THEN m ELSE slot
Applied == IF CurModel = None THEN <<>> ELSE Unwrap(CurModel).ups
Renders == IF CurModel = None THEN 0 ELSE Unwrap(CurModel).nrend

\* The hardware buffer of the callback in progress has been written.
OutputWritten == phase = "exit" /\ pc # "idle"

\* ------------------------------------------------------------ claims

\* C1: every render call gets a buffer of exactly frames_per_buffer frames,
\* frames_per_buffer * num_channels samples, whatever the sizes of the
\* hardware buffers of this and the earlier callbacks.
C1_RenderSeesLogicalSize ==
  /\ hist.renderLens \subseteq {frames_per_buffer * num_channels}
  /\ pc = "fill" /\ hist.rendersInCb > 0
       => Len(requester.buf) = frames_per_buffer * num_channels

\* A render call in a second callback whose hardware buffer has another size
\* than the logical buffer.
C1_Witness ==
  /\ pc = "fill"
  /\ hist.rendersInCb > 0
  /\ hist.ncb = 2
  /\ Len(output) # LogicalLen
  /\ hist.filled # Len(output)

\* C2: the hardware buffers, one after the other, carry the stream of rendered
\* samples 1, 2, 3, ... in order and converted to the hardware encoding: the
\* buffer of a callback that rendered holds the samples that follow the
\* hist.filled - Len(output) samples written before it, so the concatenation
\* of the buffers is the first N samples of the concatenated logical buffers
\* however N is split into hardware buffers.  (A callback whose render lock
\* failed writes no rendered sample and consumes none.)
C2_OutputIsLogicalStream ==
  OutputWritten /\ ~hist.renderFail
    => output = [i \in 1..Len(output) |->
                   ToSample(hw_format, hist.filled - Len(output) + i)]

\* The second hardware buffer is written, and neither it nor the first is a
\* multiple of the logical buffer: it starts in the middle of a logical buffer.
C2_Witness ==
  /\ OutputWritten
  /\ ~hist.renderFail
  /\ hist.ncb = 2
  /\ hist.nfail = 0
  /\ Len(output) % LogicalLen # 0
  /\ (hist.filled - Len(output)) % LogicalLen # 0
  /\ hist.filled > Len(output)

\* C3: between callbacks the render function has been called exactly
\* ceil(filled / (L*C)) times, filled being the total size of the hardware
\* buffers filled so far; the samples rendered and not yet handed out are the
\* rest of the logical buffer behind the cursor, and a render call leaves the
\* cursor at zero on a logical buffer that was used up.
C3_RenderCount ==
  /\ pc = "idle" => Renders = Ceil(hist.filled, LogicalLen)
  /\ requester.cursor <= Len(requester.buf)
  /\ Renders * LogicalLen - (Len(requester.buf) - requester.cursor)
       = hist.filled + (IF pc = "fill" THEN start ELSE 0)
  /\ pc = "idle" /\ hist.ncb > 0 /\ hist.filled > 0 => requester.cursor > 0

\* Two callbacks are over and the total is no multiple of the logical buffer:
\* the last render call's buffer is partly consumed.
C3_Witness ==
  /\ pc = "idle"
  /\ hist.ncb = 2
  /\ hist.nfail = 0
  /\ hist.filled % LogicalLen # 0
  /\ Renders >= 2

\* The hardware samples delivered so far, converted to the logical sample type.
ArrivedLogical == [i \in 1..Len(in_hist.arrived) |-> FromSample(in_hist.arrived[i])]

\* C4 as stated: once the callbacks so far are over, the logical buffers handed
\* to the capture function, concatenated, equal all the hardware samples
\* delivered.
C4_Original ==
  in_pc = "idle" => in_hist.delivered = ArrivedLogical

\* C4, amended: the logical buffers handed to the capture function,
\* concatenated, then the samples held in the logical buffer, then the part of
\* the hardware buffer not read yet, are the hardware samples in arrival
\* order; between callbacks the buffers handed over are the longest prefix of
\* whole logical buffers and fewer than L*C samples are held back; the capture
\* function only ever sees a full buffer of L*C samples.
C4_CaptureIsHardwareStream ==
  /\ in_hist.delivered \o in_buf \o [i \in 1..Len(in_hw) |-> FromSample(in_hw[i])]
       = ArrivedLogical
  /\ in_hist.lens \subseteq {LogicalLen}
  /\ Len(in_buf) <= LogicalLen
  /\ in_pc = "idle" =>
       /\ Len(in_buf) < LogicalLen
       /\ Len(in_hist.delivered) = (Len(ArrivedLogical) \div LogicalLen) * LogicalLen

\* Two callbacks whose sizes are no multiple of the logical buffer: a buffer
\* has been handed over and samples are held back.
C4_Witness ==
  /\ in_pc = "idle"
  /\ in_hist.ncb >= 2
  /\ in_hist.delivered # <<>>
  /\ in_buf # <<>>
  /\ in_hw = <<>>

\* No lock() of the callback in progress has failed.
NoLockFailure == ~hist.entryFail /\ ~hist.renderFail /\ ~hist.exitFail

\* C5 as stated: when an invocation is over (and took every lock it asked
\* for), the model is the result of applying, in order, every update sent
\* before or during it.
C5_Original ==
  pc = "return" /\ NoLockFailure => Applied = SeqFromTo(1, hist.nsent)

\* C5, amended: the updates applied, then those collected, then those in the
\* channel are at all times the updates 1..nsent in the order sent, each once;
\* and when an invocation whose exit drain got the lock is over, the model is
\* the result of applying, in order, every update sent before the exit drain
\* read the channel.  An update sent later in the invocation stays queued.
C5_UpdatesInSendOrder ==
  /\ Applied \o pending_updates \o update_chan = SeqFromTo(1, hist.nsent)
  /\ pc = "return" /\ ~hist.exitFail => Applied = SeqFromTo(1, hist.sentAtExit)

\* An invocation is over in which two updates were applied, one collected by
\* the entry drain and one sent later and collected by the exit drain.
C5_Witness ==
  /\ pc = "return"
  /\ NoLockFailure
  /\ hist.lastApply = "exit"
  /\ Applied = <<1, 2>>
  /\ hist.sentAtExit = 2

\* C6: in the fill of an invocation whose entry drain did not fail to lock,
\* every update that had been sent when the invocation started is applied
\* (before the first render call and during all of them); and when an
\* invocation whose exit drain did not fail to lock reaches its return, every
\* update sent before its fill_buffer returned is applied.
C6_DrainBeforeRenderAndReturn ==
  /\ pc = "fill" /\ ~hist.entryFail
       => \A k \in 1..hist.sentAtStart : k \in Range(Applied)
  /\ pc = "return" /\ ~hist.exitFail
       => \A k \in 1..hist.sentAtFill : k \in Range(Applied)

\* An invocation reaches its return having applied, in the exit drain, an
\* update that was sent while its render calls were running, after the entry
\* drain had applied one that was queued when it started.
C6_Witness ==
  /\ pc = "return"
  /\ NoLockFailure
  /\ hist.sentInFill
  /\ hist.lastApply = "exit"
  /\ Len(Applied) = 2
  /\ hist.sentAtFill = 2

\* C7: the model's updates change only in a step of the drain loop of
\* process_pending_updates!(), and never while the fill of a hardware buffer
\* (LockRenderOk .. FillReturn) is in progress.
C7_NoUpdateDuringFill ==
  [][ /\ Applied' # Applied => pc = "apply" /\ pc' = "apply"
      /\ pc = "lock_render" \/ pc = "fill" => Applied' = Applied ]_vars

\* Between two render calls of one fill, with an update waiting in the channel.
C7_Witness ==
  /\ pc = "fill"
  /\ hist.rendersInCb = 1
  /\ start < Len(samples)
  /\ requester.cursor = Len(requester.buf)
  /\ update_chan # <<>>
  /\ Applied = <<1>>

\* C8: the model is in exactly one place, the slot or the local variable of
\* the callback that holds the mutex.
C8_ModelOwnedOnce ==
  /\ (slot # None) # (m # None)
  /\ m # None => mutex = "audio"

\* The callback holds the model, taken out of the slot, during a fill.
C8_Witness ==
  /\ pc = "fill"
  /\ hist.rendersInCb > 0
  /\ slot = None
  /\ m # None
  /\ mutex = "audio"

\* C9: when nobody holds the mutex the slot holds Some(model), and no
\* guard.take().unwrap() has panicked.
C9_SlotFullWhenUnlocked ==
  /\ mutex = "free" => slot # None
  /\ pc # "panicked"

\* A take in a second callback, after updates, a pause and a resume.
C9_Witness ==
  /\ hist.ncb = 2
  /\ pc = "apply"
  /\ m # None
  /\ Applied # <<>>
  /\ ~is_paused
  /\ hist.pausedAtStart

\* C10 as stated: an invocation that starts while is_paused is set makes no
\* render call and writes silence.
C10_PausedCallbackIsSilent ==
  /\ hist.pausedAtStart => hist.rendersInCb = 0
  /\ hist.pausedAtStart /\ pc = "fill" => samples = [i \in 1..Len(samples) |-> Equilibrium]

\* C11 as stated: in an invocation that starts while the stream is paused the
\* entry drain still applies every update sent before it (so the model
\* reflects them after resume()), and no render call happens while the stream
\* stays paused.
C11_PausedDrainsWithoutRender ==
  /\ hist.pausedAtStart /\ pc = "fill" /\ ~hist.entryFail
       => \A k \in 1..hist.sentAtStart : k \in Range(Applied)
  /\ hist.pausedAtStart /\ is_paused /\ pc = "fill" => hist.rendersInCb = 0

\* The silence of the hardware encoding: S::equilibrium() converted.
Silence(len) == [i \in 1..len |-> ToSample(hw_format, Equilibrium)]

\* C20: an invocation whose render lock failed makes no render call and
\* writes the equilibrium value to every sample of its hardware buffer, no
\* invocation panics, and an invocation that gets the render lock after an
\* earlier lock failure writes the rendered stream where the last successful
\* fill left it.
C20_LockFailureIsOneSilentBuffer ==
  /\ hist.renderFail => hist.rendersInCb = 0
  /\ hist.renderFail /\ pc = "convert" => samples = [i \in 1..Len(output) |-> Equilibrium]
  /\ OutputWritten /\ hist.renderFail => output = Silence(Len(output))
  /\ pc # "panicked"
  /\ OutputWritten /\ ~hist.renderFail /\ hist.nfail > 0
       => output = [i \in 1..Len(output) |->
                      ToSample(hw_format, hist.filled - Len(output) + i)]

\* The second invocation has rendered and written its buffer after the first
\* one failed to lock and produced nothing but silence.
C20_Witness ==
  /\ OutputWritten
  /\ ~hist.renderFail
  /\ hist.ncb = 2
  /\ hist.nfail = 1
  /\ hist.rendersInCb > 0
  /\ hist.filled = Len(output)
  /\ Renders > 0

\* C16: pause() and resume() can be called in every state, also while the
\* audio callback holds the model mutex, and a step that changes is_paused
\* changes nothing else: not the mutex, the slot or the model, not the channel
\* or pending_updates, not the requester or its cursor, not the stream's
\* identity or registration.
C16_PauseTouchesOnlyFlag ==
  /\ [](ENABLED Pause /\ ENABLED Resume)
  /\ [][is_paused' # is_paused
          => UNCHANGED <<frames_per_buffer, num_channels, hw_format, update_chan,
                         pending_updates, slot, mutex, m, requester, samples,
                         start, output, pc, phase, hist, inVars, regVars>>]_vars

\* The flag was set after the invocation in progress started, which now holds
\* the mutex and the model in the middle of a fill.
C16_Witness ==
  /\ pc = "fill"
  /\ mutex = "audio"
  /\ m # None
  /\ hist.rendersInCb > 0
  /\ start < Len(samples)
  /\ is_paused
  /\ ~hist.pausedAtStart

\* A step of the controller thread that makes the call op on the handle.
IsCall(op) == ctl'.ncalls # ctl.ncalls /\ ctl'.op = op

\* What the calls on the handle must not touch when they have nothing to do.
handleFrame == <<frames_per_buffer, num_channels, hw_format, is_paused, update_chan,
                 pending_updates, slot, mutex, m, requester, samples, start,
                 output, pc, phase, hist, inVars, regVars, bldVars>>

\* C12: every pause() leaves is_paused set and returns no error, and a
\* pause() on a stream whose flag is already set changes nothing at all; the
\* same for resume() and a flag that is already clear.
C12_PauseIdempotent ==
  [][ /\ IsCall("pause") => is_paused' /\ ctl'.result = "ok"
      /\ IsCall("pause") /\ is_paused => UNCHANGED handleFrame
      /\ IsCall("resume") => ~is_paused' /\ ctl'.result = "ok"
      /\ IsCall("resume") /\ ~is_paused => UNCHANGED handleFrame ]_vars

\* pause() was called on a stream that was Paused, and it is Paused.
C12_Witness ==
  /\ ctl.op = "pause"
  /\ ctl.was = "Paused"
  /\ ctl.ncalls = 2
  /\ State = "Paused"

\* C13: a stream starts Running with is_paused false; the flag is what the
\* last of pause() / resume() stored; and as long as the stream was not
\* closed it stays registered with the event loop under the id it was built
\* with, its closure in place, whatever pause / resume calls were made.
C13_LifecycleFollowsLastCall ==
  /\ ctl.flag = "none" => ~is_paused
  /\ ctl.flag = "pause" => is_paused
  /\ ctl.flag = "resume" => ~is_paused
  /\ stream_id = NewStreamId({})
  /\ ctl.nderegister = 0 =>
       /\ stream_id \in event_loop \cap process_fns
       /\ State = IF is_paused THEN "Paused" ELSE "Running"

\* A callback runs on a stream that was paused and then resumed.
C13_Witness ==
  /\ ctl.flag = "resume"
  /\ ctl.was = "Paused"
  /\ ctl.ncalls = 2
  /\ State = "Running"
  /\ pc = "fill"
  /\ hist.ncb = 2

\* C14: a Closed stream stays Closed whatever is called on it, the stream is
\* removed from the event loop at most once, and close() on a Closed stream
\* returns no error and changes nothing.
C14_ClosedIsTerminal ==
  /\ [](ctl.nderegister <= 1)
  /\ [][ /\ State = "Closed" => State' = "Closed"
         /\ IsCall("close") /\ State = "Closed"
              => /\ ctl'.result = "ok"
                 /\ ctl'.nderegister = ctl.nderegister
                 /\ UNCHANGED handleFrame ]_vars

\* close() was called on a stream that was Closed.
C14_Witness ==
  /\ ctl.op = "close"
  /\ ctl.was = "Closed"
  /\ ctl.nderegister = 1
  /\ State = "Closed"

C17_ZeroIsRejectedAtTheSetter ==
  LET numeric == {"sample_rate", "channels", "frames_per_buffer"}
  IN /\ ctl.op \in numeric /\ ctl.arg = 0 =>
          /\ build_pc = "panicked" /\ ctl.result = "panic"
          /\ ctl.met = "none"
          /\ event_loop = {} /\ process_fns = {} /\ stream_id = 0 /\ OutNone
     /\ ctl.op \in numeric /\ ctl.arg > 0 =>
          /\ builder[ctl.op] = Some(ctl.arg)
          /\ build_pc = "config" /\ ctl.result = "ok"
     /\ \A f \in numeric : builder[f] # None => Unwrap(builder[f]) > 0

\* frames_per_buffer(0) on a builder that already has a sample rate and a
\* device.
C17_Witness ==
  /\ ctl.op = "frames_per_buffer"
  /\ ctl.arg = 0
  /\ build_pc = "panicked"
  /\ builder.sample_rate # None
  /\ builder.device # None

\* C18 as stated: when build() has ended without a Stream, by an error or a
\* panic, no stream is registered with the event loop and no processing
\* closure has been sent.
C18_FailedBuildLeaksNothing ==
  ctl.op = "build" /\ build_pc \in {"failed", "panicked"}
    => event_loop = {} /\ process_fns = {}

\* C19 as stated: when no supported format matches, build() returns
\* BuildError::FormatUnsupported.
C19_NoFormatIsAnError ==
  ctl.op = "build" /\ ctl.met = "no_format"
    => build_pc = "failed" /\ ctl.result = "FormatUnsupported"

\* C21: send_update can be called in every state of the audio thread and
\* whatever is queued (up to the bounds on calls), and the step that sends
\* leaves the mutex, the slot, the model and the audio thread's position and
\* data as they are: it only appends to the channel.
C21_SendNeverBlocks ==
  /\ [](ctl.ncalls < MaxCalls /\ hist.nsent < MaxUpdates => ENABLED HandleSend)
  /\ [][IsCall("send")
          => /\ UNCHANGED <<frames_per_buffer, num_channels, hw_format, is_paused,
                            pending_updates, slot, mutex, m, requester, samples,
                            start, output, pc, phase, inVars, regVars, bldVars>>
             /\ update_chan' \in {update_chan, Append(update_chan, hist'.nsent)}
     ]_vars

\* An update was sent while the callback held the mutex in its drain loop,
\* an earlier update still waiting to be applied.
C21_Witness ==
  /\ ctl.op = "send"
  /\ ctl.was = "Running"
  /\ pc = "apply"
  /\ mutex = "audio"
  /\ update_chan = <<2>>
  /\ pending_updates = <<1>>

\* C22: the callback holds the model mutex only in the drain loop that applies
\* updates and in the fill that makes the render calls; it does not hold it
\* while it looks at the channel, resizes or converts and copies the samples,
\* and not when it has returned.
C22_MutexHeldOnlyToApplyOrRender ==
  /\ mutex = "audio" <=> pc \in {"apply", "fill"}
  /\ pc \in {"idle", "collect", "lock_updates", "resize", "lock_render",
             "convert", "return"} => mutex = "free" /\ m = None

\* The second callback converts its samples, after a drain and a fill that
\* both held the mutex, and the mutex is free.
C22_Witness ==
  /\ pc = "convert"
  /\ hist.ncb = 2
  /\ hist.rendersInCb > 0
  /\ hist.lastApply = "entry"
  /\ mutex = "free"

\* C23: every fill ends, and when it has ended the write position is the
\* length of the hardware buffer, which it never exceeds on the way; the
\* buffer handed back to the hardware holds a written sample in every place.
C23_FillEndsExactlyFull ==
  /\ (pc = "fill") ~> (pc = "convert")
  /\ [](pc \in {"fill", "convert"} => Len(samples) = Len(output))
  /\ [](pc = "fill" => start <= Len(samples))
  /\ [](pc = "convert" /\ ~hist.renderFail => start = Len(output))
  /\ [](OutputWritten => \A i \in 1..Len(output) : output[i] # Stale)

\* A fill has ended in a second callback that started in the middle of a
\* logical buffer, used it up and needed a render call to go on.
C23_Witness ==
  /\ pc = "convert"
  /\ hist.ncb = 2
  /\ hist.rendersInCb = 1
  /\ Len(output) > 1
  /\ start = Len(output)
  /\ (hist.filled - Len(output)) % LogicalLen # 0

\* An entry of the device's supported formats has the channels and the
\* encoding of the request under observation.
SomeEntryMatches ==
  \E i \in 1..Len(neg.device.supported) :
    Satisfies(neg.device.supported[i], neg.sample_format, neg.channels)

\* An entry of the device's supported formats has the channel count asked for.
SomeEntryHasChannels ==
  \E i \in 1..Len(neg.device.supported) :
    neg.channels = None \/ Unwrap(neg.channels) = neg.device.supported[i].channels

\* C24 as stated: all calls on one request return the same result, and when
\* no supported entry has the channel count asked for every call fails with
\* the error FormatUnsupported.
C24_NegotiationIsDeterministic ==
  /\ \A i, j \in 1..Len(neg.results) : neg.results[i] = neg.results[j]
  /\ neg.device.enumerable /\ ~SomeEntryHasChannels =>
       \A i \in 1..Len(neg.results) :
         ~neg.results[i].ok /\ neg.results[i].format = None

\* The format f is the device's default format or lies in one of its
\* supported formats: same channels and encoding, rate within the range.
InSupportedSet(f, device) ==
  \/ Some(f) = device.default_format
  \/ \E i \in 1..Len(device.supported) :
       LET e == device.supported[i]
       IN /\ f.channels = e.channels
          /\ f.data_type = e.data_type
          /\ e.min_rate <= f.sample_rate /\ f.sample_rate <= e.max_rate

\* C25: a call returns a format whenever some supported entry has the
\* channels and the encoding asked for, whatever the rate; it returns none
\* only when no entry has them; and a format it returns is the device's
\* default format or lies in its supported set.
C25_FailsOnlyWithoutMatch ==
  \A i \in 1..Len(neg.results) :
    LET r == neg.results[i]
    IN /\ SomeEntryMatches => r.ok /\ r.format # None
       /\ r.format = None => ~SomeEntryMatches
       /\ r.format # None => InSupportedSet(Unwrap(r.format), neg.device)

\* Two calls have returned a format whose rate is not the rate asked for: no
\* matching entry's range holds it.
C25_Witness ==
  /\ Len(neg.results) = 2
  /\ neg.results[2].format # None
  /\ Unwrap(neg.results[2].format).sample_rate # neg.rate
  /\ neg.device.default_format = None
  /\ neg.channels # None

\* C26: once the stream is closed no callback starts; a callback in flight at
\* the close runs to its end, and from then on the audio thread stays idle: no
\* update is applied and nothing is rendered any more.  Close is enabled
\* whatever the audio thread is doing: it does not wait for the callback.
C26_ClosedStreamFallsSilent ==
  /\ [][State = "Closed" /\ pc = "idle" =>
          pc' = "idle" /\ Applied' = Applied /\ Renders' = Renders]_vars
  /\ (State = "Closed") ~> [](pc = "idle")
  /\ [](ctl.ncalls < MaxCalls => ENABLED StreamClose)

\* The stream was closed while a callback was in flight: the callback is
\* rendering after the close.
C26_Witness ==
  /\ State = "Closed"
  /\ ctl.op = "close"
  /\ ctl.was = "Running"
  /\ pc = "fill"
  /\ hist.rendersInCb > 0

\* C27: the identity the handle reports is the one the event loop knows the
\* stream and its processing closure by, until the stream is closed, and no
\* step after build changes it: no pause, resume, send_update, close or step
\* of a callback.
C27_StreamIdIsTheRegisteredId ==
  /\ [](ctl.nderegister = 0 =>
          event_loop = {stream_id} /\ process_fns = {stream_id})
  /\ [](event_loop \subseteq {stream_id} /\ process_fns \subseteq {stream_id})
  /\ [][stream_id' = stream_id]_vars

\* A pause or resume, a send_update and a whole callback have happened on a
\* stream that is still registered.
C27_Witness ==
  /\ ctl.ncalls = MaxCalls
  /\ ctl.op \in {"pause", "resume"}
  /\ hist.nsent > 0
  /\ pc = "return"
  /\ stream_id \in event_loop \cap process_fns

\* The updates in pending_updates are the ones sent right after those already
\* applied, in the order they were sent.
Retained ==
  pending_updates = SeqFromTo(Len(Applied) + 1, Len(Applied) + Len(pending_updates))

\* C28: a drain that collected updates and failed to lock keeps them in
\* pending_updates, in the order sent and ahead of whatever arrives later; the
\* next drain that locks applies them first, so the model has then seen every
\* update received so far, oldest first, and pending_updates is empty.
C28_FailedDrainKeepsUpdates ==
  /\ hist.entryFail /\ phase = "entry" => pending_updates # <<>>
  /\ hist.exitFail /\ pc = "return" => pending_updates # <<>>
  /\ Retained
  /\ Applied = SeqFromTo(1, Len(Applied))
  /\ pc = "return" /\ hist.entryFail /\ ~hist.exitFail =>
       pending_updates = <<>> /\ Applied = SeqFromTo(1, hist.sentAtExit)

\* The entry drain collected updates and failed to lock; the exit drain of
\* the same callback locked and applied update 1, then update 2.
C28_Witness ==
  /\ pc = "return"
  /\ hist.entryFail
  /\ hist.lastApply = "exit"
  /\ Applied = <<1, 2>>
  /\ pending_updates = <<>>

\* The callback in progress has met no update: none was applied in it, and
\* every update sent so far was applied before it.
QuietCallback ==
  /\ pc \notin {"idle", "off"}
  /\ hist.lastApply = "none"
  /\ hist.nsent = Len(Applied)

\* C30: a drain tries the lock only with an update pending, and a drain that
\* finds none goes on without touching the mutex or the model; the mutex is
\* taken with nothing pending only for rendering, so in a callback that meets
\* no update the mutex is held only during its one fill.
C30_DrainLocksOnlyWithUpdates ==
  /\ [](pc = "lock_updates" => pending_updates # <<>>)
  /\ [](QuietCallback /\ mutex = "audio" => pc = "fill")
  /\ [][mutex = "free" /\ mutex' = "audio" =>
          pending_updates # <<>> \/ (pc = "lock_render" /\ pc' = "fill")]_vars
  /\ [][pc = "collect" /\ pc' # "collect" /\ pending_updates' = <<>> =>
          pc' = AfterDrain(phase) /\ UNCHANGED <<slot, m, mutex>>]_vars
  /\ [][pc = "fill" /\ pc' # "fill" => pc' = "convert" /\ mutex' = "free"]_vars

\* The second callback has met no update and is about to return, after it
\* rendered; the first one applied update 1.
C30_Witness ==
  /\ pc = "return"
  /\ QuietCallback
  /\ hist.ncb = 2
  /\ Applied = <<1>>
  /\ pending_updates = <<>>
  /\ update_chan = <<>>
  /\ hist.rendersInCb > 0
  /\ mutex = "free"

\* Enough drains lie ahead for one of them to lock: the callbacks still to
\* come hold more drains than there are lock failures left.
DrainWillLock ==
  2 * (MaxCallbacks - hist.ncb) > MaxLockFails - hist.nfail

\* C29: an update that was sent while callbacks are still to come, one of
\* whose drains will lock, is eventually applied; no update is applied twice,
\* an applied update stays applied, and a drain that held the lock leaves
\* pending_updates empty.
C29_AcceptedUpdateIsAppliedOnce ==
  /\ \A k \in 1..MaxUpdates :
       [](hist.nsent >= k /\ DrainWillLock => <>(k \in Range(Applied)))
  /\ [](\A i, j \in 1..Len(Applied) : Applied[i] = Applied[j] => i = j)
  /\ [][Range(Applied) \subseteq Range(Applied')]_vars
  /\ [][pc = "apply" /\ pc' # "apply" =>
          pending_updates' = <<>> /\ mutex' = "free"]_vars

\* Updates 1 and 2 were both applied by the second callback, which found
\* them waiting together, after a drain of the first failed to lock.
C29_Witness ==
  /\ Applied = <<1, 2>>
  /\ hist.nfail = 1
  /\ hist.ncb = 2
  /\ hist.lastApply = "entry"
  /\ pc = "fill"
  /\ pending_updates = <<>>

\* C31: in every callback `samples` is, before the render lock is tried, as
\* long as the hardware buffer and all equilibrium; through the rest of the
\* callback it keeps that length; and once the hardware buffer is written
\* each of its elements is the conversion of the sample at the same index,
\* none being left as the hardware handed it over.
C31_BufferResetThenFullyWritten ==
  /\ pc = "lock_render" => samples = [i \in 1..Len(output) |-> Equilibrium]
  /\ pc \in {"lock_render", "fill", "convert"} \/ OutputWritten
       => Len(samples) = Len(output)
  /\ OutputWritten =>
       \A i \in 1..Len(output) :
         output[i] = ToSample(hw_format, samples[i]) /\ output[i] # Stale

\* The second callback has written a hardware buffer of more than one sample
\* whose length differs from that of the first callback's buffer.
C31_Witness ==
  /\ OutputWritten
  /\ hist.ncb = 2
  /\ hist.nfail = 0
  /\ Len(output) > 1
  /\ hist.filled # 2 * Len(output)

\* The parameters of a builder, and the ones that a call sets: render sets
\* the render function together with the sample type of its buffers.
Params ==
  {"sample_rate", "channels", "frames_per_buffer", "device", "sample_format",
   "model", "render"}
Own(op) == IF op = "render" THEN {"render", "sample_format"} ELSE {op}

\* The builder calls that return a builder, and the builder each returns.
Calls ==
  [op : {"model"}, v : Models]
    \cup [op : {"render"}, v : RenderFns \X SampleFormats]
    \cup [op : {"sample_rate"}, v : 1..MaxRate]
    \cup [op : {"channels"}, v : 1..MaxChannels]
    \cup [op : {"frames_per_buffer"}, v : 1..MaxFrames]
    \cup [op : {"device"}, v : Devices]
AfterCall(b, c) ==
  CASE c.op = "model" -> WithModel(b, c.v)
    [] c.op = "render" -> WithRender(b, c.v[1], c.v[2])
    [] OTHER -> WithField(b, c.op, Some(c.v))

\* C32: a builder call leaves every parameter but its own as it was, and a
\* numeric setter sets its own to the value given; a call that panics changes
\* none; and from any builder two calls for different parameters give the
\* same builder in either order.
C32_CallSetsOnlyItsParameter ==
  /\ [](\A c1, c2 \in Calls :
          c1.op # c2.op =>
            AfterCall(AfterCall(builder, c1), c2)
              = AfterCall(AfterCall(builder, c2), c1))
  /\ [][ctl'.result = "ok" =>
          \A f \in Params \ Own(ctl'.op) : builder'[f] = builder[f]]_vars
  /\ [][ctl'.result = "panic" => builder' = builder]_vars
  /\ [](ctl.op \in {"sample_rate", "channels", "frames_per_buffer"}
          /\ ctl.result = "ok" => builder[ctl.op] = Some(ctl.arg))
  /\ [](DOMAIN builder = Params)

\* model was called last, on a builder whose other parameters have all been
\* set.
C32_Witness ==
  /\ ctl.op = "model"
  /\ builder.model = "synth"
  /\ builder.render = "render_fn"
  /\ builder.sample_format = "I16"
  /\ builder.sample_rate = Some(2)
  /\ builder.channels = Some(1)
  /\ builder.frames_per_buffer = Some(2)
  /\ builder.device # None

\* The attachment indices of the subpasses under validation: those of the
\* color, depth-stencil, input, preserve and resolve attachments.
SubpassIndices ==
  UNION {Range(Idxs(sp.color_attachments \o sp.depth_stencil
                      \o sp.input_attachments \o sp.resolve_attachments))
           \cup Range(sp.preserve_attachments) : sp \in Range(rp.subpasses)}

\* C33 as stated: validate_descriptions never panics on an attachment index,
\* and when a subpass holds an index out of range, among its color,
\* depth-stencil, input, preserve or resolve attachments, it returns
\* Err(SubpassInvalidAttachmentIndex).
C33_InvalidIndexIsAnError ==
  rp.result # NotValidated =>
    /\ rp.result.tag # "Panic"
    /\ (\E i \in SubpassIndices : ~InRange(rp.attachments, i)) =>
         rp.result.tag = "Err"
           /\ rp.result.error = "SubpassInvalidAttachmentIndex"
====
